---- MODULE Spec2Model ----
(***************************************************************************)
(* Model of Sources/LinuxHalSwiftIO/swift_platform.c: the Linux platform   *)
(* primitives of the SwiftIO HAL (sleep, wait, uptime, cycle counter,      *)
(* cycle conversion, random fill) together with the OS facilities they     *)
(* call (usleep, sysinfo, rdtsc / cntvct_el0, sysconf, getrandom).         *)
(*                                                                         *)
(* C integers keep their width.  TLC's integers are 32 bits wide, so a C   *)
(* value is held as its bit pattern: a function from limb index to a       *)
(* 16-bit limb, least significant limb first.  An int or unsigned int      *)
(* occupies IntLimbs limbs, a long, long long or size_t LongLimbs limbs;   *)
(* the limbs above a value's width are zero.  Exact (unwrapped) results    *)
(* use all the limbs of Idx.                                               *)
(***************************************************************************)
EXTENDS Integers, Sequences, FiniteSets, TLC

\* ------------------------------------------------------------------------
\* Fixed-width arithmetic
\* ------------------------------------------------------------------------

Limb == 2^16
\* 96 bits: wide enough for the exact product of a 64-bit value and 1000.
Idx == 1..6

\* int, unsigned int, useconds_t: 32 bits.
IntLimbs == 2
\* long, long long, size_t, uint64_t on x86_64 and AArch64 (LP64): 64 bits.
LongLimbs == 4

Zero == [i \in Idx |-> 0]

\* The value n, 0 <= n < 2^31.
FromNat(n) == [i \in Idx |-> IF i = 1 THEN n % Limb ELSE IF i = 2 THEN n \div Limb ELSE 0]

\* The value with the given limbs, least significant first.
FromLimbs(s) == [i \in Idx |-> IF i <= Len(s) THEN s[i] ELSE 0]

\* The value of a, when it is below 2^31.
ToNat(a) == a[1] + a[2] * Limb

\* a modulo 2^(16 w): what a w-limb C object keeps of a.
Wrap(a, w) == [i \in Idx |-> IF i <= w THEN a[i] ELSE 0]

RECURSIVE AddCarry(_, _, _)
AddCarry(a, b, i) ==
    IF i = 1 THEN 0 ELSE (a[i - 1] + b[i - 1] + AddCarry(a, b, i - 1)) \div Limb

Add(a, b) == [i \in Idx |-> (a[i] + b[i] + AddCarry(a, b, i)) % Limb]

RECURSIVE MulCarry(_, _, _)
MulCarry(a, k, i) ==
    IF i = 1 THEN 0 ELSE (a[i - 1] * k + MulCarry(a, k, i - 1)) \div Limb

\* a * k for a small factor k (k < 2^14).
MulSmall(a, k) == [i \in Idx |-> (a[i] * k + MulCarry(a, k, i)) % Limb]

RECURSIVE LessFrom(_, _, _)
LessFrom(a, b, i) ==
    IF i = 0 THEN FALSE
    ELSE IF a[i] # b[i] THEN a[i] < b[i]
    ELSE LessFrom(a, b, i - 1)

\* a < b, both read as unsigned.
Less(a, b) == LessFrom(a, b, 6)

Leq(a, b) == ~Less(b, a)

\* Two's complement negation in w limbs.
Neg(a, w) ==
    Wrap(Add([i \in Idx |-> IF i <= w THEN Limb - 1 - a[i] ELSE 0], FromNat(1)), w)

\* (a - b) modulo 2^(16 w).
Sub(a, b, w) == Wrap(Add(a, Neg(b, w)), w)

\* The sign bit of a w-limb signed value.
IsNegative(a, w) == a[w] >= Limb \div 2

\* A w-limb signed value converted to a v-limb type (v >= w).
SignExtend(a, w, v) ==
    [i \in Idx |-> IF i <= w THEN a[i]
                   ELSE IF i <= v /\ IsNegative(a, w) THEN Limb - 1
                   ELSE 0]

\* The bit pattern of the int n, -2^31 < n < 2^31.
FromInt(n) == IF n >= 0 THEN FromNat(n) ELSE Neg(FromNat(-n), IntLimbs)

IntMax == FromLimbs(<<Limb - 1, Limb \div 2 - 1>>)
UIntMax == FromLimbs(<<Limb - 1, Limb - 1>>)
ULongMax == FromLimbs(<<Limb - 1, Limb - 1, Limb - 1, Limb - 1>>)
TwoTo32 == FromLimbs(<<0, 0, 1>>)


\* ------------------------------------------------------------------------
\* Bounds and sampled inputs
\* ------------------------------------------------------------------------

\* Threads calling into the shim in the concurrent specification.
NumThreads == 2
\* Steps of the OS clocks (uptime and cycle counter) in one behaviour.
MaxTicks == 2
\* Scheduler overshoot of a completed sleep, in microseconds.
MaxJitter == 1

\* Linux error numbers the modelled OS calls can set.
EPERM == 1
EINTR == 4
EFAULT == 14

\* The scale factors of the source.
MsToUs == 1000
MsPerSec == 1000

\* ms arguments: small values, the largest ms whose product fits an int
\* (2147483) and its successor, the largest whose product fits 32 bits
\* (4294967) and its successor, and INT_MAX.
MsInputs == {0, 1, 2147483, 2147484, 4294967, 4294968, 2147483647}

\* us arguments (unsigned int).
UsInputs == {Zero, FromNat(1), FromNat(1000000), UIntMax}

\* cycles arguments (unsigned int).
CycleInputs == {Zero, FromNat(1), UIntMax}

\* Bytes of writable memory that start at the caller's buffer: the buffer
\* and whatever the process has mapped after it.
Mapped == 4096
\* getrandom never returns short for a request of at most 256 bytes.
GetrandomAtomic == 256

\* length arguments (int).
LenInputs == {-1, 0, 1, 16, 256, 257, 4096}

\* The kernel's boot clock is a signed 64-bit count of nanoseconds, so the
\* uptime sysinfo reports is at most 2^63 / 10^9 = 9223372036 seconds.
KernelMaxUptime == FromLimbs(<<32004, 9665, 2>>)

\* Uptimes (seconds) at which a behaviour starts: zero, the uptimes whose
\* millisecond value is just below 2^31 and 2^32, and the last ones the
\* kernel can report.
UpLow == Zero
UpInt == FromNat(2147483)
UpUInt == FromNat(4294967)
UpHigh == Sub(KernelMaxUptime, FromNat(MaxTicks), LongLimbs)

\* Cycle-counter values at which a behaviour starts: zero, just below the
\* 32-bit wrap and just below the 64-bit wrap.
TscLow == Zero
TscMid == Sub(UIntMax, FromNat(1), LongLimbs)
TscHigh == Sub(ULongMax, FromNat(1), LongLimbs)

\* The systems a behaviour starts on: <<architecture, sysconf(_SC_CLK_TCK),
\* uptime, cycle counter>>.
Systems ==
    {<<"x86_64", 100, UpLow, TscLow>>,
     <<"aarch64", 250, UpInt, TscMid>>,
     <<"x86_64", 1024, UpUInt, TscHigh>>,
     <<"aarch64", 100, UpHigh, TscHigh>>}

\* One clock step: <<seconds of uptime, cycles>>.
ClockSteps == {<<0, FromNat(1)>>, <<1, FromNat(3)>>, <<1, Add(TwoTo32, FromNat(1))>>}

VARIABLES
    arch,      \* the architecture the file was built for (line 40 / 44)
    clkTck,    \* the OS clock-ticks-per-second configuration value
    uptime,    \* OS: seconds since boot
    tsc,       \* hardware: the 64-bit cycle counter of the core
    ticks,     \* clock steps taken so far
    pc,        \* per thread: "idle", "uptime_ret" (inside swifthal_uptime_get,
               \*   sysinfo has returned), "aborted"
    errno,     \* errno, per storage slot
    last       \* per thread: the call in progress or last completed, with
               \*   what it needs of the call just before it

vars == <<arch, clkTck, uptime, tsc, ticks, pc, errno, last>>

Threads == DOMAIN pc

NoCall == [op |-> "none"]
NoPrev == [valid |-> FALSE]

\* ------------------------------------------------------------------------
\* The OS facilities the shim calls
\* ------------------------------------------------------------------------

\* Faulty variant: one errno for the whole process.
ErrnoSlotShared(t) == 1

\* errno is thread-local: thread t's errno lives in slot t.
ErrnoSlot(t) == t

SetErrno(t, rc, err) ==
    IF rc < 0 THEN [errno EXCEPT ![ErrnoSlot(t)] = err] ELSE errno

\* usleep(usec): returns 0 after suspending the caller for usec microseconds
\* or a little longer (by a jitter of J), or -1 with EINTR when a signal
\* handler ran first.
UsleepOutcomes(usec, J) ==
    {[rc |-> 0, err |-> 0, blocked |-> Add(usec, FromNat(j))] : j \in J}
    \cup {[rc |-> -1, err |-> EINTR, blocked |-> e] :
            e \in {b \in {Zero, FromNat(1)} : Less(b, usec)}}

\* sysinfo(&info): 0 with info.uptime set, or -1 with errno set (to one of
\* E) and info left as it was (indeterminate: the code does not read it
\* then).
SysinfoOutcomes(E) ==
    {[rc |-> 0, err |-> 0, info |-> uptime]}
    \cup {[rc |-> -1, err |-> e, info |-> Zero] : e \in E}

\* getrandom(buf, buflen, 0): writes n random bytes from buf on and returns
\* n, or writes nothing and returns -1.  n is buflen, cut at the end of the
\* writable memory that starts at buf; a request above GetrandomAtomic
\* bytes may also stop after GetrandomAtomic bytes when a signal arrives.
Reach(buflen) == IF Less(FromNat(Mapped), buflen) THEN Mapped ELSE ToNat(buflen)

GetrandomOutcomes(buflen) ==
    {[rc |-> Reach(buflen), err |-> 0, written |-> Reach(buflen)]}
    \cup (IF Less(FromNat(GetrandomAtomic), buflen)
          THEN {[rc |-> GetrandomAtomic, err |-> 0, written |-> GetrandomAtomic]}
          ELSE {})
    \cup (IF buflen # Zero
          THEN {[rc |-> -1, err |-> EINTR, written |-> 0]}
          ELSE {})

\* ------------------------------------------------------------------------
\* The shim's functions
\* ------------------------------------------------------------------------

\* ms * 1000 as the mathematical product (line 27).
MsSleepExact(ms) == MulSmall(FromNat(ms), MsToUs)

\* The int product overflows: undefined behaviour.
MsSleepOverflows(ms) == Less(IntMax, MsSleepExact(ms))

\* What usleep receives: the int product converted to useconds_t.  When the
\* product overflows, a build without overflow trapping keeps its low 32
\* bits (imul / mul w-register).
MsSleepUsec(ms) == Wrap(MsSleepExact(ms), IntLimbs)

\* void swifthal_ms_sleep(int ms) { usleep(ms * 1000); }
MsSleep(t, ms, J) ==
    /\ pc[t] = "idle"
    /\ \E o \in UsleepOutcomes(MsSleepUsec(ms), J) :
        /\ errno' = SetErrno(t, o.rc, o.err)
        /\ last' = [last EXCEPT ![t] =
                      [op |-> "ms_sleep", ms |-> ms, usec |-> MsSleepUsec(ms),
                       rc |-> o.rc, oserr |-> o.err, blocked |-> o.blocked]]
    /\ UNCHANGED <<arch, clkTck, uptime, tsc, ticks, pc>>

\* The same call in a build that traps signed overflow (-ftrapv, UBSan
\* with trapping): the process is aborted inside the multiplication.
MsSleepTrap(t, ms) ==
    /\ pc[t] = "idle"
    /\ MsSleepOverflows(ms)
    /\ pc' = [u \in Threads |-> "aborted"]
    /\ last' = [last EXCEPT ![t] = [op |-> "ms_sleep_trap", ms |-> ms]]
    /\ UNCHANGED <<arch, clkTck, uptime, tsc, ticks, errno>>

\* Faulty variant: the argument passes through a 16-bit type on its way to usleep.
UsWaitUsecShort(us) == Wrap(us, 1)

\* What usleep receives from swifthal_us_wait (line 29).
UsWaitUsec(us) == us

\* void swifthal_us_wait(unsigned int us) { usleep(us); }
UsWait(t, us, J) ==
    /\ pc[t] = "idle"
    /\ \E o \in UsleepOutcomes(UsWaitUsec(us), J) :
        /\ errno' = SetErrno(t, o.rc, o.err)
        /\ last' = [last EXCEPT ![t] =
                      [op |-> "us_wait", us |-> us, usec |-> UsWaitUsec(us),
                       rc |-> o.rc, oserr |-> o.err, blocked |-> o.blocked]]
    /\ UNCHANGED <<arch, clkTck, uptime, tsc, ticks, pc>>

\* swifthal_uptime_get, lines 32-33: the sysinfo call.
UptimeSysinfo(t, E) ==
    /\ pc[t] = "idle"
    /\ \E o \in SysinfoOutcomes(E) :
        /\ errno' = SetErrno(t, o.rc, o.err)
        /\ last' = [last EXCEPT ![t] =
                      [op |-> "uptime_call", rc |-> o.rc, oserr |-> o.err,
                       info |-> o.info,
                       prev |-> IF last[t].op = "uptime" /\ last[t].rc = 0
                                THEN [valid |-> TRUE, ret |-> last[t].ret,
                                      info |-> last[t].info]
                                ELSE NoPrev]]
    /\ pc' = [pc EXCEPT ![t] = "uptime_ret"]
    /\ UNCHANGED <<arch, clkTck, uptime, tsc, ticks>>

\* Faulty variant: the error code is returned without the minus sign.
UptimeResultPlainErrno(rc, err, info) ==
    IF rc < 0 THEN FromNat(err) ELSE Wrap(MulSmall(info, MsPerSec), LongLimbs)

\* Faulty variant: the seconds are returned unscaled.
UptimeResultSeconds(rc, err, info) ==
    IF rc < 0
    THEN SignExtend(Neg(FromNat(err), IntLimbs), IntLimbs, LongLimbs)
    ELSE Wrap(info, LongLimbs)

\* Faulty variant: the milliseconds are computed in unsigned int.
UptimeResultNarrow(rc, err, info) ==
    IF rc < 0
    THEN SignExtend(Neg(FromNat(err), IntLimbs), IntLimbs, LongLimbs)
    ELSE Wrap(MulSmall(info, MsPerSec), IntLimbs)

\* The value swifthal_uptime_get returns (lines 33-36): -errno as a long
\* long when sysinfo failed, info.uptime * 1000 in long arithmetic otherwise.
UptimeResult(rc, err, info) ==
    IF rc < 0
    THEN SignExtend(Neg(FromNat(err), IntLimbs), IntLimbs, LongLimbs)
    ELSE Wrap(MulSmall(info, MsPerSec), LongLimbs)

\* swifthal_uptime_get, lines 34-36: read errno or info and return.
UptimeReturn(t) ==
    /\ pc[t] = "uptime_ret"
    /\ LET c == last[t]
           r == UptimeResult(c.rc, errno[ErrnoSlot(t)], c.info)
       IN /\ last' = [last EXCEPT ![t] =
                        [op |-> "uptime", rc |-> c.rc, oserr |-> c.oserr,
                         info |-> c.info, ret |-> r, prev |-> c.prev]]
    /\ pc' = [pc EXCEPT ![t] = "idle"]
    /\ UNCHANGED <<arch, clkTck, uptime, tsc, ticks, errno>>

\* Faulty variant: the x86_64 branch returns the high half (d) of the counter.
HwcycleResultHigh(a, c) ==
    IF a = "x86_64"
    THEN [i \in Idx |-> IF i <= IntLimbs THEN c[i + IntLimbs] ELSE 0]
    ELSE Wrap(c, IntLimbs)

\* The value swifthal_hwcycle_get returns for counter value c (lines 40-50).
\* x86_64: rdtsc leaves the low half in a and the high half in d; the code
\* forms a | d << 32 in unsigned long and returns it as unsigned int.
\* AArch64: the 64-bit cntvct_el0 is returned as unsigned int.
HwcycleResult(a, c) ==
    IF a = "x86_64"
    THEN LET lo == Wrap(c, IntLimbs)
             hi == [i \in Idx |-> IF i <= IntLimbs THEN c[i + IntLimbs] ELSE 0]
             both == [i \in Idx |-> IF i <= IntLimbs THEN lo[i]
                                    ELSE IF i <= LongLimbs THEN hi[i - IntLimbs]
                                    ELSE 0]
         IN Wrap(both, IntLimbs)
    ELSE Wrap(c, IntLimbs)

\* unsigned int swifthal_hwcycle_get(void)
HwcycleGet(t) ==
    /\ pc[t] = "idle"
    /\ last' = [last EXCEPT ![t] =
                  [op |-> "hwcycle", ret |-> HwcycleResult(arch, tsc), tsc |-> tsc,
                   prev |-> IF last[t].op = "hwcycle"
                            THEN [valid |-> TRUE, ret |-> last[t].ret,
                                  tsc |-> last[t].tsc]
                            ELSE NoPrev]]
    /\ UNCHANGED <<arch, clkTck, uptime, tsc, ticks, pc, errno>>

\* Faulty variant: the result scales with cycles.
HwcycleToNsScaled(cycles, tck) == Wrap(MulSmall(cycles, tck), IntLimbs)

\* The value swifthal_hwcycle_to_ns returns (line 54): the long result of
\* sysconf(_SC_CLK_TCK), here tck, converted to unsigned int.
HwcycleToNsResult(cycles, tck) == Wrap(FromNat(tck), IntLimbs)

\* unsigned int swifthal_hwcycle_to_ns(unsigned int cycles)
HwcycleToNs(t, cycles) ==
    /\ pc[t] = "idle"
    /\ last' = [last EXCEPT ![t] =
                  [op |-> "to_ns", cycles |-> cycles,
                   ret |-> HwcycleToNsResult(cycles, clkTck),
                   prev |-> IF last[t].op = "to_ns"
                            THEN [valid |-> TRUE, cycles |-> last[t].cycles,
                                  ret |-> last[t].ret]
                            ELSE NoPrev]]
    /\ UNCHANGED <<arch, clkTck, uptime, tsc, ticks, pc, errno>>

\* The size_t getrandom receives for the int length (line 58).
RandomBuflen(length) == SignExtend(FromInt(length), IntLimbs, LongLimbs)

\* void swiftHal_randomGet(unsigned char *buf, int length)
\* written: the bytes buf[0 .. written-1] now hold random bytes; every
\* other byte of memory is as it was.  The return value of getrandom is
\* dropped.
RandomGet(t, length) ==
    /\ pc[t] = "idle"
    /\ \E o \in GetrandomOutcomes(RandomBuflen(length)) :
        /\ errno' = SetErrno(t, o.rc, o.err)
        /\ last' = [last EXCEPT ![t] =
                      [op |-> "random", length |-> length, rc |-> o.rc,
                       oserr |-> o.err, written |-> o.written]]
    /\ UNCHANGED <<arch, clkTck, uptime, tsc, ticks, pc>>

\* Time passes: the uptime advances by du seconds and the cycle counter by
\* dc cycles (modulo 2^64).
Tick(du, dc) ==
    /\ ticks < MaxTicks
    /\ \A t \in Threads : pc[t] # "aborted"
    /\ ticks' = ticks + 1
    /\ uptime' = Add(uptime, FromNat(du))
    /\ tsc' = Wrap(Add(tsc, dc), LongLimbs)
    /\ UNCHANGED <<arch, clkTck, pc, errno, last>>

\* ------------------------------------------------------------------------
\* Specifications
\* ------------------------------------------------------------------------

InitWith(T, E) ==
    /\ \E e \in E :
        /\ arch = e[1]
        /\ clkTck = e[2]
        /\ uptime = e[3]
        /\ tsc = e[4]
    /\ ticks = 0
    /\ pc = [t \in T |-> "idle"]
    /\ errno = [t \in T |-> 0]
    /\ last = [t \in T |-> NoCall]

\* One thread, the full input samples.
Init == InitWith({1}, Systems)

Next ==
    \/ \E t \in Threads : \E ms \in MsInputs : MsSleep(t, ms, 0..MaxJitter)
    \/ \E t \in Threads : \E ms \in MsInputs : MsSleepTrap(t, ms)
    \/ \E t \in Threads : \E us \in UsInputs : UsWait(t, us, 0..MaxJitter)
    \/ \E t \in Threads : UptimeSysinfo(t, {EPERM, EFAULT})
    \/ \E t \in Threads : UptimeReturn(t)
    \/ \E t \in Threads : HwcycleGet(t)
    \/ \E t \in Threads : \E cycles \in CycleInputs : HwcycleToNs(t, cycles)
    \/ \E t \in Threads : \E length \in LenInputs : RandomGet(t, length)
    \/ \E s \in ClockSteps : Tick(s[1], s[2])

Spec == Init /\ [][Next]_vars

\* NumThreads threads interleaving their calls, fewer input samples.
InitMT == InitWith(1..NumThreads, {<<"x86_64", 100, UpInt, TscMid>>})

NextMT ==
    \/ \E t \in Threads : \E ms \in {0} : MsSleep(t, ms, {0})
    \/ \E t \in Threads : \E us \in {FromNat(1)} : UsWait(t, us, {0})
    \/ \E t \in Threads : UptimeSysinfo(t, {EFAULT})
    \/ \E t \in Threads : UptimeReturn(t)
    \/ \E t \in Threads : HwcycleGet(t)
    \/ \E t \in Threads : \E cycles \in {FromNat(1)} : HwcycleToNs(t, cycles)
    \/ \E t \in Threads : \E length \in {16} : RandomGet(t, length)

SpecMT == InitMT /\ [][NextMT]_vars

\* ------------------------------------------------------------------------
\* Properties
\* ------------------------------------------------------------------------

Done(t, op) == pc[t] = "idle" /\ last[t].op = op

\* C1: whenever sysinfo fails with error code e > 0, swifthal_uptime_get
\* returns exactly -e: a strictly negative long long whose magnitude is e.
C1_FailureReturnsNegErrno ==
    \A t \in Threads :
        (Done(t, "uptime") /\ last[t].rc < 0) =>
            /\ last[t].oserr > 0
            /\ IsNegative(last[t].ret, LongLimbs)
            /\ Neg(last[t].ret, LongLimbs) = FromNat(last[t].oserr)

\* C1, reached: a failed sysinfo (EFAULT) whose call has returned -14.
C1_Witness ==
    \E t \in Threads :
        /\ Done(t, "uptime") /\ last[t].rc < 0 /\ last[t].oserr = EFAULT
        /\ last[t].ret = FromLimbs(<<Limb - EFAULT, Limb - 1, Limb - 1, Limb - 1>>)

\* C2: whenever sysinfo succeeds reporting s seconds, swifthal_uptime_get
\* returns exactly s * 1000 (the mathematical product), which is
\* non-negative as a long long.
C2_SuccessReturnsMillis ==
    \A t \in Threads :
        (Done(t, "uptime") /\ last[t].rc = 0) =>
            /\ last[t].ret = MulSmall(last[t].info, MsPerSec)
            /\ ~IsNegative(last[t].ret, LongLimbs)

\* C2, reached: a successful call at an uptime whose millisecond value needs more than
\* 32 bits.
C2_Witness ==
    \E t \in Threads :
        /\ Done(t, "uptime") /\ last[t].rc = 0
        /\ Less(UpUInt, last[t].info)
        /\ Less(UIntMax, last[t].ret)

\* C3 (as claimed): for every non-negative int ms, swifthal_ms_sleep hands
\* ms * 1000 microseconds to usleep and so blocks for at least ms
\* milliseconds.  Stated for the calls whose usleep ran to completion.
C3_SleepsAtLeastMs ==
    \A t \in Threads :
        (Done(t, "ms_sleep") /\ last[t].rc = 0) =>
            /\ last[t].usec = MsSleepExact(last[t].ms)
            /\ Leq(MsSleepExact(last[t].ms), last[t].blocked)

\* C4 (as claimed): swifthal_us_wait(us) blocks for at least us
\* microseconds, also when usleep fails or is interrupted by a signal.
C4_WaitsAtLeastUsAlways ==
    \A t \in Threads :
        Done(t, "us_wait") => Leq(last[t].us, last[t].blocked)

\* C4 (amended): swifthal_us_wait(us) passes us unchanged to usleep and
\* blocks for at least us microseconds whenever that usleep call runs to
\* completion (returns 0).
C4_WaitsAtLeastUsWhenCompleted ==
    \A t \in Threads :
        (Done(t, "us_wait") /\ last[t].rc = 0) =>
            /\ last[t].usec = last[t].us
            /\ Leq(last[t].us, last[t].blocked)

\* C4, reached: a completed wait of UINT_MAX microseconds.
C4_Witness ==
    \E t \in Threads :
        /\ Done(t, "us_wait") /\ last[t].rc = 0
        /\ last[t].us = UIntMax
        /\ Leq(UIntMax, last[t].blocked)

\* C5 (as claimed): when swiftHal_randomGet(buf, length) returns, all of
\* buf[0 .. length-1] has been filled, for every length >= 0.
C5_FillsWholeBuffer ==
    \A t \in Threads :
        (Done(t, "random") /\ last[t].length >= 0) =>
            last[t].written >= last[t].length

\* C6: two consecutive swifthal_hwcycle_get reads of one thread differ, in
\* unsigned int arithmetic, by exactly the counter ticks elapsed between
\* them modulo 2^32.
C6_DeltaIsElapsedTicks ==
    \A t \in Threads :
        (Done(t, "hwcycle") /\ last[t].prev.valid) =>
            Sub(last[t].ret, last[t].prev.ret, IntLimbs)
                = Wrap(Sub(last[t].tsc, last[t].prev.tsc, LongLimbs), IntLimbs)

\* C6, reached: two consecutive reads between which the low 32 bits of the counter
\* wrapped: the second value is numerically below the first.
C6_Witness ==
    \E t \in Threads :
        /\ Done(t, "hwcycle") /\ last[t].prev.valid
        /\ last[t].tsc # last[t].prev.tsc
        /\ Less(last[t].ret, last[t].prev.ret)

\* C7: swifthal_hwcycle_to_ns returns the clock-ticks-per-second value of
\* the OS whatever cycles is; two consecutive calls return the same value.
C7_ReturnsClkTck ==
    \A t \in Threads :
        Done(t, "to_ns") =>
            /\ last[t].ret = FromNat(clkTck)
            /\ last[t].prev.valid => last[t].ret = last[t].prev.ret

\* C7, reached: two consecutive calls with different cycles arguments.
C7_Witness ==
    \E t \in Threads :
        /\ Done(t, "to_ns") /\ last[t].prev.valid
        /\ last[t].cycles = UIntMax
        /\ last[t].prev.cycles = Zero

\* C8: of two consecutive successful swifthal_uptime_get calls of a thread,
\* with the OS uptime not decreasing in between, both results are
\* non-negative and the second is at least the first.
C8_UptimeNonDecreasing ==
    \A t \in Threads :
        (/\ Done(t, "uptime") /\ last[t].rc = 0 /\ last[t].prev.valid
         /\ Leq(last[t].prev.info, last[t].info)) =>
            /\ ~IsNegative(last[t].prev.ret, LongLimbs)
            /\ ~IsNegative(last[t].ret, LongLimbs)
            /\ Leq(last[t].prev.ret, last[t].ret)

\* C8, reached: two consecutive successful calls with the uptime advanced in between,
\* across the point where the millisecond value passes 2^32.
C8_Witness ==
    \E t \in Threads :
        /\ Done(t, "uptime") /\ last[t].rc = 0 /\ last[t].prev.valid
        /\ last[t].prev.info = UpUInt
        /\ Less(last[t].prev.ret, last[t].ret)

\* What a completed call returns when it runs alone against the OS
\* responses it received.
AloneResult(c) ==
    CASE c.op = "uptime" ->
            IF c.rc < 0
            THEN SignExtend(FromInt(-c.oserr), IntLimbs, LongLimbs)
            ELSE Wrap(MulSmall(c.info, MsPerSec), LongLimbs)
      [] c.op = "hwcycle" -> Wrap(c.tsc, IntLimbs)
      [] c.op = "to_ns" -> FromNat(clkTck)

\* C9: under any interleaving of the threads' calls, each call returns what
\* it would return alone against the same OS responses; the -errno of a
\* failing swifthal_uptime_get is the error of the thread's own sysinfo call.
C9_ResultsAsIfAlone ==
    \A t \in Threads :
        (pc[t] = "idle" /\ last[t].op \in {"uptime", "hwcycle", "to_ns"}) =>
            last[t].ret = AloneResult(last[t])

\* C9, reached: a thread has returned from a failed swifthal_uptime_get, another from
\* an interrupted swifthal_us_wait, and each thread's errno holds the error
\* of its own OS call.
C9_Witness ==
    \E t, u \in Threads :
        /\ t # u
        /\ Done(t, "uptime") /\ last[t].rc < 0
        /\ Done(u, "us_wait") /\ last[u].rc < 0
        /\ errno[ErrnoSlot(t)] = last[t].oserr
        /\ errno[ErrnoSlot(u)] = last[u].oserr
        /\ last[t].oserr # last[u].oserr

\* C10 (as claimed): swiftHal_randomGet(buf, length) writes no byte outside
\* buf[0 .. length-1]; for length <= 0 it writes no byte at all.
C10_WritesOnlyInsideBuffer ==
    \A t \in Threads :
        Done(t, "random") =>
            last[t].written <= (IF last[t].length > 0 THEN last[t].length ELSE 0)
====
